---- MODULE Spec2Model ----
(***************************************************************************)
(* A model of the hecto text buffer: Row (src/src/row.rs), the syntax      *)
(* highlighter implemented on Row, FileType (src/src/filetype.rs) and      *)
(* Document (src/src/document.rs).                                         *)
(*                                                                         *)
(* A Rust `char` is modelled by a one-character string; the three          *)
(* non-ASCII characters the model knows are named by their code point.     *)
(* A Rust `String` is the sequence of its chars; byte offsets are computed *)
(* from the UTF-8 width of every char, so that the places where the source *)
(* mixes byte, char and grapheme indices behave as they do in the build.   *)
(* An Option is a sequence of length at most one.  An operation that       *)
(* panics yields a record whose panic field is TRUE.                       *)
(***************************************************************************)
EXTENDS Integers, Sequences, FiniteSets, TLC

VARIABLES
    rows,        \* Document.rows: a sequence of Row records
    file_name,   \* Document.file_name: Option<String>
    dirty,       \* Document.dirty
    file_type,   \* Document.file_type
    disk,        \* Option: the bytes of the backing file
    saved,       \* the line contents as loaded or as last saved with success
    panicked,    \* TRUE once an operation has panicked (the process aborts)
    last,        \* the operation that produced this state, its arguments and result
    nops         \* number of operations performed so far

vars == <<rows, file_name, dirty, file_type, disk, saved, panicked, last, nops>>

----------------------------------------------------------------------------
(* Options *)

None == <<>>
Some(v) == <<v>>
IsSome(o) == o # <<>>
Unwrap(o) == o[1]

----------------------------------------------------------------------------
(* chars and strings *)

EACUTE == "U+00E9"       \* e with acute accent: 2 bytes in UTF-8
EURO == "U+20AC"         \* euro sign: 3 bytes in UTF-8
COMBINING == "U+0301"    \* combining acute accent: 2 bytes, Grapheme_Extend
GRAVE == "U+0060"        \* the ASCII grave accent

len_utf8(c) ==
    CASE c = EACUTE -> 2
      [] c = COMBINING -> 2
      [] c = EURO -> 3
      [] OTHER -> 1

is_ascii_digit(c) == c \in {"0", "1", "2", "3", "4", "5", "6", "7", "8", "9"}

is_ascii_punctuation(c) ==
    c \in {"!", "\"", "#", "$", "%", "&", "'", "(", ")", "*", "+", ",", "-",
           ".", "/", ":", ";", "<", "=", ">", "?", "@", "[", "\\", "]", "^",
           "_", GRAVE, "{", "|", "}", "~"}

is_ascii_whitespace(c) == c \in {" ", "\t", "\n", "\f", "\r"}

is_separator(c) == is_ascii_punctuation(c) \/ is_ascii_whitespace(c)

\* Grapheme_Cluster_Break classes of the chars of the model
IsExtend(c) == c = COMBINING
IsControl(c) == c \in {"\t", "\n", "\f", "\r"}

saturating_sub(a, b) == IF a > b THEN a - b ELSE 0

Rep(t, n) == [i \in 1..n |-> t]

RECURSIVE ByteLen(_)
ByteLen(s) == IF s = <<>> THEN 0 ELSE len_utf8(Head(s)) + ByteLen(Tail(s))

\* char::encode_utf8: the bytes of a char; an ASCII char is its own byte
encode_utf8(c) ==
    CASE c = EACUTE -> <<"0xC3", "0xA9">>
      [] c = COMBINING -> <<"0xCC", "0x81">>
      [] c = EURO -> <<"0xE2", "0x82", "0xAC">>
      [] OTHER -> <<c>>

\* str::as_bytes
RECURSIVE as_bytes(_)
as_bytes(s) == IF s = <<>> THEN <<>> ELSE encode_utf8(Head(s)) \o as_bytes(Tail(s))

\* byte offset of the char with (0-based) index k
byte_offset(s, k) == ByteLen(SubSeq(s, 1, k))

is_char_boundary(s, b) == \E k \in 0..Len(s) : byte_offset(s, k) = b

\* &s[b..] for a byte index b that is a char boundary
slice_from(s, b) ==
    LET k == CHOOSE k \in 0..Len(s) : byte_offset(s, k) = b
    IN  SubSeq(s, k + 1, Len(s))

\* str::find / str::rfind: the byte index of the first / last occurrence
Occurs(s, pat, k) == k + Len(pat) <= Len(s) /\ SubSeq(s, k + 1, k + Len(pat)) = pat

str_find(s, pat) ==
    LET hits == {k \in 0..Len(s) : Occurs(s, pat, k)}
    IN  IF hits = {} THEN None
        ELSE Some(byte_offset(s, CHOOSE k \in hits : \A j \in hits : k <= j))

str_rfind(s, pat) ==
    LET hits == {k \in 0..Len(s) : Occurs(s, pat, k)}
    IN  IF hits = {} THEN None
        ELSE Some(byte_offset(s, CHOOSE k \in hits : \A j \in hits : k >= j))

ends_with(s, suffix) ==
    Len(suffix) <= Len(s) /\ SubSeq(s, Len(s) - Len(suffix) + 1, Len(s)) = suffix

RECURSIVE Concat(_)
Concat(ss) == IF ss = <<>> THEN <<>> ELSE Head(ss) \o Concat(Tail(ss))

\* number of chars that follow the first char of s in its grapheme cluster
RECURSIVE ExtendRun(_, _)
ExtendRun(s, k) ==
    IF k < Len(s) /\ IsExtend(s[k + 1]) THEN ExtendRun(s, k + 1) ELSE k

\* UnicodeSegmentation::graphemes(true): the extended grapheme clusters of s
RECURSIVE graphemes(_)
graphemes(s) ==
    IF s = <<>> THEN <<>>
    ELSE LET n == IF Len(s) >= 2 /\ s[1] = "\r" /\ s[2] = "\n" THEN 2
                  ELSE IF IsControl(s[1]) THEN 1
                  ELSE ExtendRun(s, 1)
         IN  <<SubSeq(s, 1, n)>> \o graphemes(SubSeq(s, n + 1, Len(s)))

\* str::lines: split at "\n", drop a trailing "\r" of each line; a final
\* empty piece is no line
RECURSIVE lines(_)
lines(s) ==
    IF s = <<>> THEN <<>>
    ELSE LET nl == {k \in 1..Len(s) : s[k] = "\n"}
         IN  IF nl = {} THEN <<s>>
             ELSE LET k == CHOOSE k \in nl : \A j \in nl : k <= j
                      raw == SubSeq(s, 1, k - 1)
                      line == IF raw # <<>> /\ raw[Len(raw)] = "\r"
                              THEN SubSeq(raw, 1, Len(raw) - 1) ELSE raw
                  IN  <<line>> \o lines(SubSeq(s, k + 1, Len(s)))

----------------------------------------------------------------------------
(* highlighting::Type *)

TNone == "None"
TNumber == "Number"
TMatch == "Match"
TString == "String"
TCharacter == "Character"
TComment == "Comment"
TMultilineComment == "MultilineComment"
TPrimaryKeyword == "PrimaryKeyword"
TSecondaryKeyword == "SecondaryKeyword"

----------------------------------------------------------------------------
(* FileType and HighlightingOptions *)

RustPrimaryKeywords ==
    << <<"a","s">>, <<"b","r","e","a","k">>, <<"c","o","n","s","t">>,
       <<"c","o","n","t","i","n","u","e">>, <<"c","r","a","t","e">>,
       <<"e","l","s","e">>, <<"e","n","u","m">>, <<"e","x","t","e","r","n">>,
       <<"f","a","l","s","e">>, <<"f","n">>, <<"f","o","r">>, <<"i","f">>,
       <<"i","m","p","l">>, <<"i","n">>, <<"l","e","t">>, <<"l","o","o","p">>,
       <<"m","a","t","c","h">>, <<"m","o","d">>, <<"m","o","v","e">>,
       <<"m","u","t">>, <<"p","u","b">>, <<"r","e","f">>,
       <<"r","e","t","u","r","n">>, <<"s","e","l","f">>, <<"S","e","l","f">>,
       <<"s","t","a","t","i","c">>, <<"s","t","r","u","c","t">>,
       <<"s","u","p","e","r">>, <<"t","r","a","i","t">>, <<"t","r","u","e">>,
       <<"t","y","p","e">>, <<"u","n","s","a","f","e">>, <<"u","s","e">>,
       <<"w","h","e","r","e">>, <<"w","h","i","l","e">>, <<"d","y","n">>,
       <<"a","b","s","t","r","a","c","t">>, <<"b","e","c","o","m","e">>,
       <<"b","o","x">>, <<"d","o">>, <<"f","i","n","a","l">>,
       <<"m","a","c","r","o">>, <<"o","v","e","r","r","i","d","e">>,
       <<"p","r","i","v">>, <<"t","y","p","e","o","f">>,
       <<"u","n","s","i","z","e","d">>, <<"v","i","r","t","u","a","l">>,
       <<"y","i","e","l","d">>, <<"a","s","y","n","c">>,
       <<"a","w","a","i","t">>, <<"t","r","y">> >>

RustSecondaryKeywords ==
    << <<"b","o","o","l">>, <<"c","h","a","r">>, <<"i","8">>, <<"i","1","6">>,
       <<"i","3","2">>, <<"i","6","4">>, <<"i","s","i","z","e">>, <<"u","8">>,
       <<"u","1","6">>, <<"u","3","2">>, <<"u","6","4">>,
       <<"u","s","i","z","e">>, <<"f","3","2">>, <<"f","6","4">> >>

HighlightingOptions_default ==
    [numbers |-> FALSE, strings |-> FALSE, characters |-> FALSE,
     comments |-> FALSE, multiline_comments |-> FALSE,
     primary_keywords |-> <<>>, secondary_keywords |-> <<>>]

FileType_default ==
    [name |-> "No filetype", hl_opts |-> HighlightingOptions_default]

FileType_from(ft) ==
    IF ends_with(ft, <<".", "r", "s">>)
    THEN [name |-> "Rust",
          hl_opts |-> [numbers |-> TRUE, strings |-> TRUE, characters |-> TRUE,
                       comments |-> TRUE, multiline_comments |-> TRUE,
                       primary_keywords |-> RustPrimaryKeywords,
                       secondary_keywords |-> RustSecondaryKeywords]]
    ELSE FileType_default

----------------------------------------------------------------------------
(* Row: editing *)

Row_from(slice) ==
    [string |-> slice, highlighting |-> <<>>,
     len |-> Len(graphemes(slice)), is_highlighted |-> FALSE]

Row_default ==
    [string |-> <<>>, highlighting |-> <<>>, len |-> 0, is_highlighted |-> FALSE]

Row_len(self) == self.len

\* Row::insert that forgets the cached length when it appends
Row_insert_stale_len(self, at, c) ==
    IF at >= self.len
    THEN [self EXCEPT !.string = Append(self.string, c)]
    ELSE LET g == graphemes(self.string)
             piece(index) == (IF index = at THEN <<c>> ELSE <<>>) \o g[index + 1]
             length == Len(g) + (IF at < Len(g) THEN 1 ELSE 0)
         IN  [self EXCEPT !.string = Concat([i \in 1..Len(g) |-> piece(i - 1)]),
                          !.len = length]

Row_insert(self, at, c) ==
    IF at >= Row_len(self)
    THEN [self EXCEPT !.string = Append(self.string, c), !.len = self.len + 1]
    ELSE LET g == graphemes(self.string)
             piece(index) == (IF index = at THEN <<c>> ELSE <<>>) \o g[index + 1]
             length == Len(g) + (IF at < Len(g) THEN 1 ELSE 0)
         IN  [self EXCEPT !.string = Concat([i \in 1..Len(g) |-> piece(i - 1)]),
                          !.len = length]

\* Row::delete that leaves the cached length as it was
Row_delete_keeps_len(self, at) ==
    IF at >= Row_len(self)
    THEN self
    ELSE LET g == graphemes(self.string)
             piece(index) == IF index # at THEN g[index + 1] ELSE <<>>
         IN  [self EXCEPT !.string = Concat([i \in 1..Len(g) |-> piece(i - 1)])]

Row_delete(self, at) ==
    IF at >= Row_len(self)
    THEN self
    ELSE LET g == graphemes(self.string)
             piece(index) == IF index # at THEN g[index + 1] ELSE <<>>
             length == Cardinality({index \in 0..(Len(g) - 1) : index # at})
         IN  [self EXCEPT !.string = Concat([i \in 1..Len(g) |-> piece(i - 1)]),
                          !.len = length]

Row_append(self, new) ==
    [self EXCEPT !.string = self.string \o new.string, !.len = self.len + new.len]

\* the pair of the row as split leaves it and the row split returns
Row_split(self, at) ==
    LET g == graphemes(self.string)
        n == IF at < Len(g) THEN at ELSE Len(g)
    IN  [row |-> [self EXCEPT !.string = Concat(SubSeq(g, 1, n)), !.len = n,
                              !.is_highlighted = FALSE],
         splitted |-> [string |-> Concat(SubSeq(g, n + 1, Len(g))),
                       highlighting |-> <<>>, len |-> Len(g) - n,
                       is_highlighted |-> FALSE]]

Forward == "Forward"
Backward == "Backward"

\* Row::find whose Backward window stops one unit short of at
Row_find_short_window(self, query, at, direction) ==
    IF at > self.len \/ query = <<>>
    THEN None
    ELSE LET start == IF direction = Forward THEN at ELSE 0
             end == IF direction = Forward THEN self.len ELSE saturating_sub(at, 1)
             g == graphemes(self.string)
             taken == SubSeq(g, start + 1,
                             IF end < Len(g) THEN end ELSE Len(g))
             substring == Concat(taken)
             matching_byte_index ==
                 IF direction = Forward THEN str_find(substring, query)
                 ELSE str_rfind(substring, query)
             gbyte(i) == ByteLen(Concat(SubSeq(taken, 1, i)))
             hit == {i \in 0..(Len(taken) - 1) :
                        gbyte(i) = Unwrap(matching_byte_index)}
         IN  IF IsSome(matching_byte_index) /\ hit # {}
             THEN Some(start + CHOOSE i \in hit : TRUE)
             ELSE None

Row_find(self, query, at, direction) ==
    IF at > self.len \/ query = <<>>
    THEN None
    ELSE LET start == IF direction = Forward THEN at ELSE 0
             end == IF direction = Forward THEN self.len ELSE at
             g == graphemes(self.string)
             taken == SubSeq(g, start + 1,
                             IF end < Len(g) THEN end ELSE Len(g))
             substring == Concat(taken)
             matching_byte_index ==
                 IF direction = Forward THEN str_find(substring, query)
                 ELSE str_rfind(substring, query)
             \* byte index at which the grapheme with index i starts
             gbyte(i) == ByteLen(Concat(SubSeq(taken, 1, i)))
             hit == {i \in 0..(Len(taken) - 1) :
                        gbyte(i) = Unwrap(matching_byte_index)}
         IN  IF IsSome(matching_byte_index) /\ hit # {}
             THEN Some(start + CHOOSE i \in hit : TRUE)
             ELSE None

----------------------------------------------------------------------------
(* Row: the Highlighter implementation.                                    *)
(* A rule takes the row (whose highlighting holds the tags pushed so far)  *)
(* and the cursor, and yields [ok, panic, index, highlighting]: whether it *)
(* matched, whether it panicked, and the cursor and the tags as it leaves  *)
(* them.                                                                   *)

NoMatch(self, index) ==
    [ok |-> FALSE, panic |-> FALSE, index |-> index, highlighting |-> self.highlighting]
Matched(index, hl) ==
    [ok |-> TRUE, panic |-> FALSE, index |-> index, highlighting |-> hl]
Panicked(self, index) ==
    [ok |-> FALSE, panic |-> TRUE, index |-> index, highlighting |-> self.highlighting]

\* chars.get(i)
Get(chars, i) == IF i >= 0 /\ i < Len(chars) THEN Some(chars[i + 1]) ELSE None

highlight_char(self, index, opts, c, chars) ==
    IF opts.characters /\ c = "'" /\ IsSome(Get(chars, index + 1))
    THEN LET next_char == Unwrap(Get(chars, index + 1))
             closing_index == IF next_char = "\\" THEN index + 3 ELSE index + 2
         IN  IF Get(chars, closing_index) = Some("'")
             THEN LET n == saturating_sub(closing_index, index) + 1
                  IN  Matched(index + n, self.highlighting \o Rep(TCharacter, n))
             ELSE NoMatch(self, index)
    ELSE NoMatch(self, index)

highlight_comment(self, index, opts, c, chars) ==
    IF opts.comments /\ c = "/" /\ index < Len(chars)
       /\ Get(chars, index + 1) = Some("/")
    THEN LET n == Len(chars) - index
         IN  Matched(index + n, self.highlighting \o Rep(TComment, n))
    ELSE NoMatch(self, index)

\* highlight_multiline_comment that does not look at the options
highlight_multiline_comment_unasked(self, index, opts, c, chars) ==
    IF c = "/" /\ index < Len(chars)
       /\ Get(chars, index + 1) = Some("*")
    THEN IF ~is_char_boundary(self.string, index + 2)
         THEN Panicked(self, index)
         ELSE LET found == str_find(slice_from(self.string, index + 2), <<"*", "/">>)
                  closing_index == IF IsSome(found) THEN index + Unwrap(found) + 4
                                   ELSE Len(chars)
                  n == saturating_sub(closing_index, index)
              IN  Matched(index + n, self.highlighting \o Rep(TMultilineComment, n))
    ELSE NoMatch(self, index)

highlight_multiline_comment(self, index, opts, c, chars) ==
    IF opts.comments /\ c = "/" /\ index < Len(chars)
       /\ Get(chars, index + 1) = Some("*")
    THEN IF ~is_char_boundary(self.string, index + 2)
         THEN Panicked(self, index)
         ELSE LET found == str_find(slice_from(self.string, index + 2), <<"*", "/">>)
                  closing_index == IF IsSome(found) THEN index + Unwrap(found) + 4
                                   ELSE Len(chars)
                  n == saturating_sub(closing_index, index)
              IN  Matched(index + n, self.highlighting \o Rep(TMultilineComment, n))
    ELSE NoMatch(self, index)

\* the loop of highlight_string, entered with the cursor on a char that is
\* pushed: it pushes until the char under the cursor is a quote or is missing
RECURSIVE string_loop(_, _, _)
string_loop(chars, index, hl) ==
    LET hl1 == Append(hl, TString)
        index1 == index + 1
    IN  IF IsSome(Get(chars, index1)) /\ Unwrap(Get(chars, index1)) # "\""
        THEN string_loop(chars, index1, hl1)
        ELSE [index |-> index1, highlighting |-> hl1]

highlight_string(self, index, opts, c, chars) ==
    IF opts.strings /\ c = "\""
    THEN LET l == string_loop(chars, index, self.highlighting)
         IN  Matched(l.index + 1, Append(l.highlighting, TString))
    ELSE NoMatch(self, index)

RECURSIVE number_loop(_, _, _)
number_loop(chars, index, hl) ==
    LET hl1 == Append(hl, TNumber)
        index1 == index + 1
    IN  IF IsSome(Get(chars, index1))
           /\ (Unwrap(Get(chars, index1)) = "." \/ is_ascii_digit(Unwrap(Get(chars, index1))))
        THEN number_loop(chars, index1, hl1)
        ELSE [index |-> index1, highlighting |-> hl1]

\* highlight_number that does not look at the char before the digit
highlight_number_anywhere(self, index, opts, c, chars) ==
    IF opts.numbers /\ is_ascii_digit(c)
    THEN LET l == number_loop(chars, index, self.highlighting)
         IN  Matched(l.index, l.highlighting)
    ELSE NoMatch(self, index)

highlight_number(self, index, opts, c, chars) ==
    IF opts.numbers /\ is_ascii_digit(c)
    THEN IF index > 0 /\ ~is_separator(chars[index])
         THEN NoMatch(self, index)
         ELSE LET l == number_loop(chars, index, self.highlighting)
              IN  Matched(l.index, l.highlighting)
    ELSE NoMatch(self, index)

\* the tags pushed and the steps of the cursor are substring.len() many, the
\* length of the &str in bytes
highlight_str(self, index, substring, chars, hl_type) ==
    IF substring = <<>>
    THEN NoMatch(self, index)
    ELSE IF \A substring_index \in 0..(Len(substring) - 1) :
                Get(chars, index + substring_index) = Some(substring[substring_index + 1])
         THEN Matched(index + ByteLen(substring),
                      self.highlighting \o Rep(hl_type, ByteLen(substring)))
         ELSE NoMatch(self, index)

\* highlight_keywords that does not look at the char after the keyword
highlight_keywords_prefix(self, index, chars, keywords, hl_type) ==
    IF index > 0 /\ ~is_separator(chars[index])
    THEN NoMatch(self, index)
    ELSE LET tried == {k \in 1..Len(keywords) :
                         highlight_str(self, index, keywords[k], chars, hl_type).ok}
         IN  IF tried = {}
             THEN NoMatch(self, index)
             ELSE highlight_str(self, index,
                                keywords[CHOOSE k \in tried : \A j \in tried : k <= j],
                                chars, hl_type)

\* the `for word in keywords` loop: a keyword is passed over when a char
\* follows its span and is no separator; the first of the others that
\* highlight_str matches is the one highlighted
highlight_keywords(self, index, chars, keywords, hl_type) ==
    IF index > 0 /\ ~is_separator(chars[index])
    THEN NoMatch(self, index)
    ELSE LET tried == {k \in 1..Len(keywords) :
                         /\ highlight_str(self, index, keywords[k], chars, hl_type).ok
                         /\ ~(/\ index < saturating_sub(Len(chars), ByteLen(keywords[k]))
                              /\ ~is_separator(chars[index + ByteLen(keywords[k]) + 1]))}
         IN  IF tried = {}
             THEN NoMatch(self, index)
             ELSE highlight_str(self, index,
                                keywords[CHOOSE k \in tried : \A j \in tried : k <= j],
                                chars, hl_type)

highlight_secondary_keywords(self, index, opts, chars) ==
    highlight_keywords(self, index, chars, opts.secondary_keywords, TSecondaryKeyword)

highlight_primary_keywords(self, index, opts, chars) ==
    highlight_keywords(self, index, chars, opts.primary_keywords, TPrimaryKeyword)

\* one pass of the `while let Some(search_match) = self.find(..)` loop of
\* highlight_match with the search start at index: [found, panic, index,
\* highlighting]; found tells whether the loop goes on
match_pass(self, word, index) ==
    LET search_match == Row_find(self, word, index, Forward)
    IN  IF ~IsSome(search_match)
        THEN [found |-> FALSE, panic |-> FALSE, index |-> index,
              highlighting |-> self.highlighting]
        ELSE LET next_index == Unwrap(search_match) + Len(graphemes(word))
                 first == index + Unwrap(search_match)
                 range == first..(next_index - 1)
                 \* the tags the `for i in ..` loop has written: those of the
                 \* range that exist; the first i that does not aborts it
                 written == [i \in 1..Len(self.highlighting) |->
                                IF (i - 1) \in range THEN TMatch
                                ELSE self.highlighting[i]]
             IN  IF \E i \in range : i >= Len(self.highlighting)
                 THEN [found |-> TRUE, panic |-> TRUE, index |-> index,
                       highlighting |-> written]
                 ELSE [found |-> TRUE, panic |-> FALSE, index |-> next_index,
                       highlighting |-> written]

\* the loop of highlight_match, entered with the search start at index:
\* [panic, highlighting]
RECURSIVE match_loop(_, _, _)
RECURSIVE match_passed(_, _, _)
match_loop(self, word, index) ==
    match_passed(self, word, match_pass(self, word, index))

\* the loop of highlight_match after a pass that yielded p
match_passed(self, word, p) ==
    IF p.panic \/ ~p.found
    THEN [panic |-> p.panic, highlighting |-> p.highlighting]
    ELSE match_loop([self EXCEPT !.highlighting = p.highlighting], word, p.index)

\* word is an Option<&str>
highlight_match(self, word) ==
    IF IsSome(word) /\ Unwrap(word) # <<>>
    THEN match_loop(self, Unwrap(word), 0)
    ELSE [panic |-> FALSE, highlighting |-> self.highlighting]

\* a pass of the while loop that leaves the cursor where it is when no rule
\* matches
scan_pass_stuck(self, index, opts, c, chars) ==
    LET ml == highlight_multiline_comment(self, index, opts, c, chars)
        ch == highlight_char(self, index, opts, c, chars)
        co == highlight_comment(self, index, opts, c, chars)
        st == highlight_string(self, index, opts, c, chars)
        out(r) == [ok |-> r.ok, panic |-> r.panic, index |-> r.index,
                   highlighting |-> r.highlighting, in_ml_comment |-> FALSE]
    IN  IF ml.panic \/ ml.ok THEN [out(ml) EXCEPT !.in_ml_comment = ml.ok]
        ELSE IF ch.ok THEN out(ch)
        ELSE IF co.ok THEN out(co)
        ELSE IF st.ok THEN out(st)
        ELSE [ok |-> FALSE, panic |-> FALSE, index |-> index,
              highlighting |-> self.highlighting, in_ml_comment |-> FALSE]

\* one pass of the `while let Some(c) = chars.get(index)` loop with the cursor
\* at index, on the char c: [ok, panic, index, highlighting, in_ml_comment];
\* ok tells whether a rule matched
scan_pass(self, index, opts, c, chars) ==
    LET ml == highlight_multiline_comment(self, index, opts, c, chars)
        ch == highlight_char(self, index, opts, c, chars)
        co == highlight_comment(self, index, opts, c, chars)
        pk == highlight_primary_keywords(self, index, opts, chars)
        sk == highlight_secondary_keywords(self, index, opts, chars)
        st == highlight_string(self, index, opts, c, chars)
        nu == highlight_number(self, index, opts, c, chars)
        out(r) == [ok |-> r.ok, panic |-> r.panic, index |-> r.index,
                   highlighting |-> r.highlighting, in_ml_comment |-> FALSE]
    IN  IF ml.panic \/ ml.ok THEN [out(ml) EXCEPT !.in_ml_comment = ml.ok]
        ELSE IF ch.ok THEN out(ch)
        ELSE IF co.ok THEN out(co)
        ELSE IF pk.ok THEN out(pk)
        ELSE IF sk.ok THEN out(sk)
        ELSE IF st.ok THEN out(st)
        ELSE IF nu.ok THEN out(nu)
        ELSE [ok |-> FALSE, panic |-> FALSE, index |-> index + 1,
              highlighting |-> Append(self.highlighting, TNone),
              in_ml_comment |-> FALSE]

\* the `while let Some(c) = chars.get(index)` loop from the cursor index on:
\* [panic, highlighting, in_ml_comment]
RECURSIVE scan_loop(_, _, _, _, _)
RECURSIVE scan_passed(_, _, _, _, _)
scan_loop(self, opts, chars, index, in_ml_comment) ==
    IF ~IsSome(Get(chars, index))
    THEN [panic |-> FALSE, highlighting |-> self.highlighting,
          in_ml_comment |-> in_ml_comment]
    ELSE scan_passed(self, opts, chars, in_ml_comment,
                     scan_pass(self, index, opts, Unwrap(Get(chars, index)), chars))

\* the loop after a pass that yielded p
scan_passed(self, opts, chars, in_ml_comment, p) ==
    IF p.panic
    THEN [panic |-> TRUE, highlighting |-> self.highlighting,
          in_ml_comment |-> in_ml_comment]
    ELSE scan_loop([self EXCEPT !.highlighting = p.highlighting], opts, chars,
                   p.index, p.in_ml_comment)

\* Row::highlight: [row, ret, panic, skipped]; row is the row as the call
\* leaves it, ret the returned flag, skipped whether the call returned from
\* the freshness test without scanning
HlResult(row, ret, panic, skipped) ==
    [row |-> row, ret |-> ret, panic |-> panic, skipped |-> skipped]

\* the end of Row::highlight, s2 being the row with the tags highlight_match
\* left: the test of the last two bytes and the freshness flag
highlight_return(s2, in_ml_comment) ==
    LET tail == saturating_sub(ByteLen(s2.string), 2)
    IN  IF in_ml_comment
        THEN IF ~is_char_boundary(s2.string, tail)
             THEN HlResult(s2, FALSE, TRUE, FALSE)
             ELSE IF slice_from(s2.string, tail) # <<"*", "/">>
             THEN HlResult(s2, TRUE, FALSE, FALSE)
             ELSE HlResult([s2 EXCEPT !.is_highlighted = TRUE], FALSE, FALSE, FALSE)
        ELSE HlResult([s2 EXCEPT !.is_highlighted = TRUE], FALSE, FALSE, FALSE)

\* Row::highlight after the call of highlight_match, which yielded matched
highlight_matched(s1, matched, in_ml_comment) ==
    IF matched.panic
    THEN HlResult([s1 EXCEPT !.highlighting = matched.highlighting], FALSE, TRUE, FALSE)
    ELSE highlight_return([s1 EXCEPT !.highlighting = matched.highlighting],
                          in_ml_comment)

\* Row::highlight after the while loop, which yielded scanned
highlight_scanned(self, word, scanned) ==
    IF scanned.panic
    THEN HlResult([self EXCEPT !.highlighting = scanned.highlighting],
                  FALSE, TRUE, FALSE)
    ELSE highlight_matched(
            [self EXCEPT !.highlighting = scanned.highlighting],
            highlight_match([self EXCEPT !.highlighting = scanned.highlighting], word),
            scanned.in_ml_comment)

\* the number of tags Row::highlight pushes for a row that starts inside a
\* comment
closing_index_of(self) ==
    IF IsSome(str_find(self.string, <<"*", "/">>))
    THEN Unwrap(str_find(self.string, <<"*", "/">>)) + 2
    ELSE Len(self.string)

Row_highlight(self, opts, word, start_with_comment) ==
    IF self.is_highlighted /\ ~IsSome(word)
    THEN IF self.highlighting # <<>>
            /\ self.highlighting[Len(self.highlighting)] = TMultilineComment
            /\ ByteLen(self.string) > 1
         THEN IF ~is_char_boundary(self.string, ByteLen(self.string) - 2)
              THEN HlResult(self, FALSE, TRUE, TRUE)
              ELSE HlResult(self,
                            slice_from(self.string, ByteLen(self.string) - 2)
                                = <<"*", "/">>,
                            FALSE, TRUE)
         ELSE HlResult(self, FALSE, FALSE, TRUE)
    ELSE IF start_with_comment
    THEN highlight_scanned(
            self, word,
            scan_loop([self EXCEPT !.highlighting =
                          Rep(TMultilineComment, closing_index_of(self))],
                      opts, self.string, closing_index_of(self), TRUE))
    ELSE highlight_scanned(
            self, word,
            scan_loop([self EXCEPT !.highlighting = <<>>], opts, self.string, 0, FALSE))

----------------------------------------------------------------------------
(* Document.  A document is the record [rows, file_name, dirty, file_type]; *)
(* a Position is the record [x, y].                                        *)

Position_new(x, y) == [x |-> x, y |-> y]

Document_default ==
    [rows |-> <<>>, file_name |-> None, dirty |-> FALSE, file_type |-> FileType_default]

\* Document::open of a file that holds the text contents
Document_open(filename, contents) ==
    LET ls == lines(contents)
    IN  [rows |-> [i \in 1..Len(ls) |-> Row_from(ls[i])],
         file_name |-> Some(filename),
         dirty |-> FALSE,
         file_type |-> FileType_from(filename)]

\* Vec::insert and Vec::remove at a 0-based index
VecInsert(v, i, e) == SubSeq(v, 1, i) \o <<e>> \o SubSeq(v, i + 1, Len(v))
VecRemove(v, i) == SubSeq(v, 1, i) \o SubSeq(v, i + 2, Len(v))

\* Document::unhighlight_rows that starts at the row start itself
unhighlight_rows_from_start(self, start) ==
    [self EXCEPT !.rows =
        [i \in 1..Len(self.rows) |->
            IF i - 1 >= start THEN [self.rows[i] EXCEPT !.is_highlighted = FALSE]
            ELSE self.rows[i]]]

unhighlight_rows(self, start) ==
    LET from == saturating_sub(start, 1)
    IN  [self EXCEPT !.rows =
            [i \in 1..Len(self.rows) |->
                IF i - 1 >= from THEN [self.rows[i] EXCEPT !.is_highlighted = FALSE]
                ELSE self.rows[i]]]

insert_newline(self, at) ==
    IF at.y = Len(self.rows)
    THEN [self EXCEPT !.rows = Append(self.rows, Row_default)]
    ELSE LET s == Row_split(self.rows[at.y + 1], at.x)
         IN  [self EXCEPT !.rows =
                 VecInsert([self.rows EXCEPT ![at.y + 1] = s.row], at.y + 1, s.splitted)]

\* Document::insert that marks the document dirty before it looks at the
\* position
Document_insert_dirty_first(self, at, c) ==
    LET d == [self EXCEPT !.dirty = TRUE]
    IN  IF at.y > Len(self.rows)
        THEN d
        ELSE LET edited ==
                     IF c = "\n" THEN insert_newline(d, at)
                     ELSE IF at.y = Len(d.rows)
                     THEN [d EXCEPT !.rows = Append(d.rows, Row_insert(Row_default, 0, c))]
                     ELSE [d EXCEPT !.rows[at.y + 1] = Row_insert(d.rows[at.y + 1], at.x, c)]
             IN  unhighlight_rows(edited, at.y)

Document_insert(self, at, c) ==
    IF at.y > Len(self.rows)
    THEN self
    ELSE LET d == [self EXCEPT !.dirty = TRUE]
             edited ==
                 IF c = "\n" THEN insert_newline(d, at)
                 ELSE IF at.y = Len(d.rows)
                 THEN [d EXCEPT !.rows = Append(d.rows, Row_insert(Row_default, 0, c))]
                 ELSE [d EXCEPT !.rows[at.y + 1] = Row_insert(d.rows[at.y + 1], at.x, c)]
         IN  unhighlight_rows(edited, at.y)

\* Document::delete that marks the document dirty only when a line changes
Document_delete_dirty_on_change(self, at) ==
    LET len == Len(self.rows)
    IN  IF at.y >= len
        THEN self
        ELSE LET edited ==
                     IF at.x = Row_len(self.rows[at.y + 1]) /\ at.y + 1 < len
                     THEN LET next_row == self.rows[at.y + 2]
                              removed == VecRemove(self.rows, at.y + 1)
                          IN  [self EXCEPT !.rows =
                                  [removed EXCEPT ![at.y + 1] =
                                      Row_append(removed[at.y + 1], next_row)]]
                     ELSE [self EXCEPT !.rows[at.y + 1] =
                              Row_delete(self.rows[at.y + 1], at.x)]
                 changed == \/ Len(edited.rows) # len
                            \/ \E i \in 1..len : edited.rows[i].string # self.rows[i].string
             IN  unhighlight_rows([edited EXCEPT !.dirty = self.dirty \/ changed], at.y)

Document_delete(self, at) ==
    LET len == Len(self.rows)
    IN  IF at.y >= len
        THEN self
        ELSE LET d == [self EXCEPT !.dirty = TRUE]
                 edited ==
                     IF at.x = Row_len(d.rows[at.y + 1]) /\ at.y + 1 < len
                     THEN LET next_row == d.rows[at.y + 2]
                              removed == VecRemove(d.rows, at.y + 1)
                          IN  [d EXCEPT !.rows =
                                  [removed EXCEPT ![at.y + 1] =
                                      Row_append(removed[at.y + 1], next_row)]]
                     ELSE [d EXCEPT !.rows[at.y + 1] = Row_delete(d.rows[at.y + 1], at.x)]
             IN  unhighlight_rows(edited, at.y)

\* the bytes save writes for the first k rows
RECURSIVE Written(_, _)
Written(rs, k) ==
    IF k = 0 THEN <<>> ELSE Written(rs, k - 1) \o as_bytes(rs[k].string) \o <<"\n">>

\* Document::save that leaves the dirty flag as it is
Document_save_keeps_dirty(self, io) ==
    IF ~IsSome(self.file_name)
    THEN [doc |-> self, ok |-> TRUE, written |-> None]
    ELSE IF io.kind = "create_err"
    THEN [doc |-> self, ok |-> FALSE, written |-> None]
    ELSE LET d == [self EXCEPT !.file_type = FileType_from(Unwrap(self.file_name))]
         IN  IF io.kind = "ok"
             THEN [doc |-> d, ok |-> TRUE, written |-> Some(Written(d.rows, Len(d.rows)))]
             ELSE [doc |-> d, ok |-> FALSE,
                   written |-> Some(SubSeq(Written(d.rows, Len(d.rows)), 1, io.k))]

\* Document::save.  io says how the file system answers: io.kind is "ok",
\* "create_err" (File::create fails) or "write_err" (a write_all fails when
\* io.k bytes were written in all, inside a row, before its newline or after
\* it).  Yields [doc, ok, written]: the document, whether save returned Ok,
\* and the bytes the call left in the file (None: the file was not touched).
Document_save(self, io) ==
    IF ~IsSome(self.file_name)
    THEN [doc |-> self, ok |-> TRUE, written |-> None]
    ELSE IF io.kind = "create_err"
    THEN [doc |-> self, ok |-> FALSE, written |-> None]
    ELSE LET d == [self EXCEPT !.file_type = FileType_from(Unwrap(self.file_name))]
         IN  IF io.kind = "ok"
             THEN [doc |-> [d EXCEPT !.dirty = FALSE], ok |-> TRUE,
                   written |-> Some(Written(d.rows, Len(d.rows)))]
             ELSE [doc |-> d, ok |-> FALSE,
                   written |-> Some(SubSeq(Written(d.rows, Len(d.rows)), 1, io.k))]

Document_is_dirty(self) == self.dirty

\* the `for _ in start..end` loop of Document::find with n passes left:
\* [ret, panic]
RECURSIVE find_loop(_, _, _, _, _)
find_loop(self, query, position, direction, n) ==
    IF n = 0
    THEN [ret |-> None, panic |-> FALSE]
    ELSE IF position.y >= Len(self.rows)
    THEN [ret |-> None, panic |-> FALSE]
    ELSE LET row == self.rows[position.y + 1]
             x == Row_find(row, query, position.x, direction)
         IN  IF IsSome(x)
             THEN [ret |-> Some(Position_new(Unwrap(x), position.y)), panic |-> FALSE]
             ELSE IF direction = Forward
             THEN find_loop(self, query, Position_new(0, position.y + 1), direction, n - 1)
             ELSE LET y == saturating_sub(position.y, 1)
                  IN  IF y >= Len(self.rows)
                      THEN [ret |-> None, panic |-> TRUE]
                      ELSE find_loop(self, query,
                                     Position_new(Row_len(self.rows[y + 1]), y),
                                     direction, n - 1)

\* Document::find that makes one pass fewer than there are rows to search
Document_find_one_short(self, query, at, direction) ==
    IF at.y >= Len(self.rows)
    THEN [ret |-> None, panic |-> FALSE]
    ELSE LET start == IF direction = Forward THEN at.y + 1 ELSE 0
             end == IF direction = Forward THEN Len(self.rows) ELSE at.y
         IN  find_loop(self, query, Position_new(at.x, at.y), direction, end - start)

Document_find(self, query, at, direction) ==
    IF at.y >= Len(self.rows)
    THEN [ret |-> None, panic |-> FALSE]
    ELSE LET start == IF direction = Forward THEN at.y ELSE 0
             end == IF direction = Forward THEN Len(self.rows) ELSE at.y + 1
         IN  find_loop(self, query, Position_new(at.x, at.y), direction, end - start)

\* the `for row in &mut self.rows[..until]` loop of Document::highlight from
\* the row with index i on: [rows, panic, scanned, visited], scanned being the
\* set of indices of the rows that were scanned rather than skipped and
\* visited the indices of the rows Row::highlight was called on, in the order
\* of the calls
RECURSIVE highlight_loop(_, _, _, _, _, _, _, _)
RECURSIVE highlight_row(_, _, _, _, _, _, _, _)
highlight_loop(rs, opts, word, until, i, start_with_comment, scanned, visited) ==
    IF i >= until
    THEN [rows |-> rs, panic |-> FALSE, scanned |-> scanned, visited |-> visited]
    ELSE highlight_row(rs, opts, word, until, i, scanned, Append(visited, i),
                       Row_highlight(rs[i + 1], opts, word, start_with_comment))

\* the body of the loop for the row with index i, r being what Row::highlight
\* yielded for it
highlight_row(rs, opts, word, until, i, scanned, visited, r) ==
    IF r.panic
    THEN [rows |-> [rs EXCEPT ![i + 1] = r.row], panic |-> TRUE,
          scanned |-> IF r.skipped THEN scanned ELSE scanned \cup {i},
          visited |-> visited]
    ELSE highlight_loop([rs EXCEPT ![i + 1] = r.row], opts, word, until, i + 1, r.ret,
                        IF r.skipped THEN scanned ELSE scanned \cup {i}, visited)

\* the document and the outcome of Document::highlight, l being what the loop
\* yielded
highlighted(self, l) ==
    [doc |-> [self EXCEPT !.rows = l.rows], panic |-> l.panic, scanned |-> l.scanned,
     visited |-> l.visited]

\* Document::highlight that goes one row further than until + 1
Document_highlight_one_more(self, word, until) ==
    highlighted(
        self,
        highlight_loop(self.rows, self.file_type.hl_opts, word,
                       IF IsSome(until)
                       THEN IF Unwrap(until) + 2 < Len(self.rows) THEN Unwrap(until) + 2
                            ELSE Len(self.rows)
                       ELSE Len(self.rows),
                       0, FALSE, {}, <<>>))

\* word is an Option<&str>, until an Option<usize>: [doc, panic, scanned,
\* visited]
Document_highlight(self, word, until) ==
    highlighted(
        self,
        highlight_loop(self.rows, self.file_type.hl_opts, word,
                       IF IsSome(until)
                       THEN IF Unwrap(until) + 1 < Len(self.rows) THEN Unwrap(until) + 1
                            ELSE Len(self.rows)
                       ELSE Len(self.rows),
                       0, FALSE, {}, <<>>))

----------------------------------------------------------------------------
(* The editing session: a Document is constructed (Document::default, or   *)
(* Document::open of one of the files below) and its operations are called *)
(* in any order with any arguments.                                        *)

MaxOps == 2

RsName == <<"a", ".", "r", "s">>
TxtName == <<"a", ".", "t", "x", "t">>

\* the text of a file that holds the given lines
RECURSIVE Text(_)
Text(ls) == IF ls = <<>> THEN <<>> ELSE Head(ls) \o <<"\n">> \o Text(Tail(ls))

Files ==
    { [name |-> RsName, text |-> Text(<< <<"/", "*", "*", "/">>, <<"a", "/", "*">> >>)],
      [name |-> RsName, text |-> Text(<< <<"/", "*", "a">>, <<"*", "/", "i", "f">> >>)],
      [name |-> RsName, text |-> Text(<< <<"/", "*", "/">>, <<"i", "f">> >>)],
      [name |-> RsName, text |-> Text(<< <<"a", "b", "a", "b">> >>)],
      [name |-> RsName, text |-> Text(<< <<"/", "*", EURO>> >>)],
      [name |-> RsName, text |-> <<>>],
      [name |-> TxtName, text |-> Text(<< <<"/", "*">>, <<"5">> >>)] }

InsertChars == {"a", "\n"}
Words == {None, Some(<<"a">>)}

Doc == [rows |-> rows, file_name |-> file_name, dirty |-> dirty, file_type |-> file_type]

SetDoc(d) ==
    /\ rows' = d.rows
    /\ file_name' = d.file_name
    /\ dirty' = d.dirty
    /\ file_type' = d.file_type

Contents(d) == [i \in 1..Len(d.rows) |-> d.rows[i].string]

\* the positions an operation is tried at: every column of every row up to
\* one past its end, and the rows up to one past the valid ones
Positions(d) ==
    {Position_new(0, y) : y \in Len(d.rows)..(Len(d.rows) + 1)}
    \cup UNION {{Position_new(x, y - 1) : x \in 0..(Row_len(d.rows[y]) + 1)} :
                    y \in 1..Len(d.rows)}

Untils(d) == {None} \cup {Some(u) : u \in 0..Len(d.rows)}

IoAnswers(d) ==
    {[kind |-> "ok", k |-> 0], [kind |-> "create_err", k |-> 0]}
    \cup {[kind |-> "write_err", k |-> k] :
              k \in 0..(Len(Written(d.rows, Len(d.rows))) - 1)}

\* `last` describes the call that produced the state: its name and arguments,
\* what it returned, the document before it (pre) and the call before it (prev)
Blank ==
    [op |-> "", at |-> Position_new(0, 0), c |-> "", word |-> None, until |-> None,
     start_with_comment |-> FALSE, io |-> [kind |-> "ok", k |-> 0],
     ok |-> TRUE, ret |-> FALSE, skipped |-> FALSE, scanned |-> {},
     query |-> <<>>, direction |-> Forward, found |-> None, index |-> None,
     in_ml_comment |-> FALSE, visited |-> <<>>,
     pre |-> Document_default]

Call(op) ==
    [Blank EXCEPT !.op = op, !.pre = Doc] @@ [prev |-> [f \in DOMAIN Blank |-> last[f]]]

Init ==
    /\ \E d \in {Document_default}
                \cup {Document_open(f.name, f.text) : f \in Files} :
          /\ rows = d.rows
          /\ file_name = d.file_name
          /\ dirty = d.dirty
          /\ file_type = d.file_type
          /\ saved = Contents(d)
    /\ disk \in {None} \cup {Some(as_bytes(f.text)) : f \in Files}
    /\ IsSome(file_name) => \E f \in Files :
          f.name = Unwrap(file_name) /\ disk = Some(as_bytes(f.text)) /\ saved = lines(f.text)
    /\ ~IsSome(file_name) => disk = None
    /\ panicked = FALSE
    /\ last = [Blank EXCEPT !.op = "new"] @@ [prev |-> Blank]
    /\ nops = 0

Ready == ~panicked /\ nops < MaxOps

Insert(at, c) ==
    /\ Ready
    /\ SetDoc(Document_insert(Doc, at, c))
    /\ last' = [Call("insert") EXCEPT !.at = at, !.c = c]
    /\ nops' = nops + 1
    /\ UNCHANGED <<disk, saved, panicked>>

Delete(at) ==
    /\ Ready
    /\ SetDoc(Document_delete(Doc, at))
    /\ last' = [Call("delete") EXCEPT !.at = at]
    /\ nops' = nops + 1
    /\ UNCHANGED <<disk, saved, panicked>>

\* the state Document::highlight leaves, r being what it yielded
Highlighted(r, word, until) ==
    /\ SetDoc(r.doc)
    /\ panicked' = r.panic
    /\ last' = [Call("highlight") EXCEPT !.word = word, !.until = until,
                                       !.scanned = r.scanned,
                                       !.visited = r.visited]

Highlight(word, until) ==
    /\ Ready
    /\ Highlighted(Document_highlight(Doc, word, until), word, until)
    /\ nops' = nops + 1
    /\ UNCHANGED <<disk, saved>>

\* the state Document::save leaves, r being what it yielded
Saved(r, io) ==
    /\ SetDoc(r.doc)
    /\ disk' = IF IsSome(r.written) THEN r.written ELSE disk
    /\ saved' = IF r.ok /\ IsSome(r.written) THEN Contents(r.doc) ELSE saved
    /\ last' = [Call("save") EXCEPT !.io = io, !.ok = r.ok]

Save(io) ==
    /\ Ready
    /\ Saved(Document_save(Doc, io), io)
    /\ nops' = nops + 1
    /\ UNCHANGED panicked

\* Document::unhighlight_rows called on its own
Unhighlight(start) ==
    /\ Ready
    /\ SetDoc(unhighlight_rows(Doc, start))
    /\ last' = [Call("unhighlight_rows") EXCEPT !.at = Position_new(0, start)]
    /\ nops' = nops + 1
    /\ UNCHANGED <<disk, saved, panicked>>

Next ==
    \/ \E at \in Positions(Doc), c \in InsertChars : Insert(at, c)
    \/ \E at \in Positions(Doc) : Delete(at)
    \/ \E word \in Words, until \in Untils(Doc) : Highlight(word, until)
    \/ \E io \in IoAnswers(Doc) : Save(io)
    \/ \E start \in 0..(Len(rows) + 1) : Unhighlight(start)

Spec == Init /\ [][Next]_vars

----------------------------------------------------------------------------
(* One Row on its own: a line is built with Row::from and the Highlighter  *)
(* is called on it with any profile, search word and carried-in flag       *)
(* (RowSpec), or it is edited with Row::insert and Row::delete             *)
(* (RowEditSpec).  The row is rows[1]; file_type holds the profile.        *)

MaxLineLen == 3
MaxRowOps == 2

LineAlphabet == {"/", "*", "i", "8"}

Strings(S, n) == UNION {[1..k -> S] : k \in 0..n}

SampleLines ==
    { <<"l", "e", "t", " ", "x", " ", "=", " ", "1", ";">>,
      <<"l", "e", "t", "t", "e", "r", " ", "=", " ", "1", ";">>,
      <<"m", "i", "d", "d", "l", "e", " ", "*", "/", " ", "l", "e", "t", " ", "y",
        " ", "=", " ", "2", ";">>,
      <<"/", "/", " ", "i", "f", " ", "a">>,
      <<"\"", "i", "f", " ", "\"", " ", "i", "f">>,
      <<"a", " ", "i", "f", " ", "a">>,
      <<"a", "i", "f", " ", "i", "f", "a", " ", "i", "f">>,
      <<"i", "8", " ", "5", ".", "5", "a", "5", " ", "5">>,
      <<"a", "5">>,
      <<" ", "5">>,
      <<"i", "8", "i", "8">>,
      <<"i", " ", "i", "i", "i">>,
      <<"'", "a", "'", "\"", "a">>,
      <<EACUTE, "*", "/", "a", "5">>,
      <<"a", COMBINING, "a">> }

Lines == Strings(LineAlphabet, MaxLineLen) \cup SampleLines

Profiles == {FileType_from(RsName), FileType_default}

RowWords == {None, Some(<<"i">>), Some(<<"i", "8">>)}

RowChars == {"i", COMBINING}

RowStart(profiles) ==
    /\ \E s \in Lines : rows = <<Row_from(s)>>
    /\ file_type \in profiles
    /\ file_name = None
    /\ dirty = FALSE
    /\ disk = None
    /\ saved = <<>>
    /\ panicked = FALSE
    /\ last = [Blank EXCEPT !.op = "new"] @@ [prev |-> Blank]
    /\ nops = 0

RowReady == ~panicked /\ nops < MaxRowOps

\* the state Row::highlight leaves, r being what it yielded
RowHighlighted(r, word, start_with_comment) ==
    /\ rows' = <<r.row>>
    /\ panicked' = r.panic
    /\ last' = [Call("row_highlight") EXCEPT
                   !.word = word, !.start_with_comment = start_with_comment,
                   !.ret = r.ret, !.skipped = r.skipped]

RowHighlight(word, start_with_comment) ==
    /\ RowReady
    /\ RowHighlighted(Row_highlight(rows[1], file_type.hl_opts, word, start_with_comment),
                      word, start_with_comment)
    /\ nops' = nops + 1
    /\ UNCHANGED <<file_name, dirty, file_type, disk, saved>>

\* the state Row::insert leaves
RowInserted(at, c) ==
    /\ rows' = [rows EXCEPT ![1] = Row_insert(@, at, c)]
    /\ last' = [Call("row_insert") EXCEPT !.at = Position_new(at, 0), !.c = c]
    /\ nops' = nops + 1
    /\ UNCHANGED <<file_name, dirty, file_type, disk, saved, panicked>>

RowInsert(at, c) ==
    /\ RowReady
    /\ RowInserted(at, c)

RowDelete(at) ==
    /\ RowReady
    /\ rows' = [rows EXCEPT ![1] = Row_delete(@, at)]
    /\ last' = [Call("row_delete") EXCEPT !.at = Position_new(at, 0)]
    /\ nops' = nops + 1
    /\ UNCHANGED <<file_name, dirty, file_type, disk, saved, panicked>>

RowInit == RowStart(Profiles)

RowNext ==
    \E word \in RowWords, start_with_comment \in BOOLEAN :
        RowHighlight(word, start_with_comment)

RowSpec == RowInit /\ [][RowNext]_vars

\* the indices an edit of the row is tried at: up to one past its length
RowPositions == 0..(Row_len(rows[1]) + 1)

RowEditInit == RowStart({FileType_default})

RowEditNext ==
    \/ \E at \in RowPositions, c \in RowChars : RowInsert(at, c)
    \/ \E at \in RowPositions : RowDelete(at)

RowEditSpec == RowEditInit /\ [][RowEditNext]_vars

----------------------------------------------------------------------------
(* Search: a Document is opened on one of the files below and              *)
(* Document::find is called on it with any query, position and direction   *)
(* (FindSpec).                                                             *)

SearchFiles ==
    { [name |-> TxtName,
       text |-> Text(<< <<"a", "b", "a", "b">>, <<"b", "a">>, <<"a", "b">> >>)],
      [name |-> TxtName, text |-> Text(<< <<"b">>, <<>>, <<"a", "a", "b">> >>)],
      [name |-> TxtName, text |-> Text(<< <<EURO, "a", "b">>, <<"a">> >>)],
      [name |-> TxtName, text |-> Text(<< <<"a", COMBINING, "b">>, <<"a", "b">> >>)],
      [name |-> TxtName, text |-> <<>>] }

Queries == {<<>>, <<"a">>, <<"a", "b">>}

Directions == {Forward, Backward}

FindInit ==
    /\ \E f \in SearchFiles :
          /\ rows = Document_open(f.name, f.text).rows
          /\ file_name = Document_open(f.name, f.text).file_name
          /\ dirty = Document_open(f.name, f.text).dirty
          /\ file_type = Document_open(f.name, f.text).file_type
          /\ disk = Some(as_bytes(f.text))
          /\ saved = lines(f.text)
    /\ panicked = FALSE
    /\ last = [Blank EXCEPT !.op = "new"] @@ [prev |-> Blank]
    /\ nops = 0

\* the state Document::find leaves, r being what it yielded
Found(r, query, at, direction) ==
    /\ panicked' = r.panic
    /\ last' = [Call("find") EXCEPT !.query = query, !.at = at,
                                  !.direction = direction, !.found = r.ret]

Find(query, at, direction) ==
    /\ Ready
    /\ Found(Document_find(Doc, query, at, direction), query, at, direction)
    /\ nops' = nops + 1
    /\ UNCHANGED <<rows, file_name, dirty, file_type, disk, saved>>

FindNext ==
    \E query \in Queries, at \in Positions(Doc), direction \in Directions :
        Find(query, at, direction)

FindSpec == FindInit /\ [][FindNext]_vars


----------------------------------------------------------------------------
(* One Row on its own, searched with Row::find (RowFindSpec).              *)

RowQueries == {<<>>, <<"i">>, <<"i", "8">>, <<COMBINING>>}

\* the indices a search of the row is started at: its two ends and one past
RowFindPositions == {0, Row_len(rows[1]), Row_len(rows[1]) + 1}

RowFind(query, at, direction) ==
    /\ RowReady
    /\ last' = [Call("row_find") EXCEPT
                   !.query = query, !.at = Position_new(at, 0),
                   !.direction = direction,
                   !.index = Row_find(rows[1], query, at, direction)]
    /\ nops' = nops + 1
    /\ UNCHANGED <<rows, file_name, dirty, file_type, disk, saved, panicked>>

RowFindNext ==
    \E query \in RowQueries, at \in RowFindPositions, direction \in Directions :
        RowFind(query, at, direction)

RowFindSpec == RowEditInit /\ [][RowFindNext]_vars

----------------------------------------------------------------------------
(* One Row on its own, edited with Row::insert, Row::delete, Row::split and *)
(* Row::append (RowOpsSpec).  The row is rows[1]; the row that split       *)
(* returned is rows[2] until it is appended.                               *)

ShortLines ==
    { <<>>, <<"i">>, <<"i", "8">>, <<EURO, "i">>, <<"i", EACUTE, "8">>,
      <<"a", COMBINING, "a">>, <<COMBINING, "i">> }

RowOpsInit ==
    /\ \E s \in ShortLines : rows = <<Row_from(s)>>
    /\ file_type = FileType_default
    /\ file_name = None
    /\ dirty = FALSE
    /\ disk = None
    /\ saved = <<>>
    /\ panicked = FALSE
    /\ last = [Blank EXCEPT !.op = "new"] @@ [prev |-> Blank]
    /\ nops = 0

\* the state Row::split leaves: the row and the row split returned
RowSplitted(at) ==
    /\ Len(rows) = 1
    /\ rows' = <<Row_split(rows[1], at).row, Row_split(rows[1], at).splitted>>
    /\ last' = [Call("row_split") EXCEPT !.at = Position_new(at, 0)]
    /\ nops' = nops + 1
    /\ UNCHANGED <<file_name, dirty, file_type, disk, saved, panicked>>

RowSplit(at) ==
    /\ RowReady
    /\ RowSplitted(at)

\* the state Row::append leaves, called with the row split returned
RowAppended ==
    /\ Len(rows) = 2
    /\ rows' = <<Row_append(rows[1], rows[2])>>
    /\ last' = Call("row_append")
    /\ nops' = nops + 1
    /\ UNCHANGED <<file_name, dirty, file_type, disk, saved, panicked>>

RowAppend ==
    /\ RowReady
    /\ RowAppended

RowOpsNext ==
    \/ \E at \in RowPositions, c \in RowChars : RowInsert(at, c)
    \/ \E at \in RowPositions : RowDelete(at)
    \/ \E at \in RowPositions : RowSplit(at)
    \/ RowAppend

RowOpsSpec == RowOpsInit /\ [][RowOpsNext]_vars

----------------------------------------------------------------------------
(* One Row on its own that is classified and edited in any order           *)
(* (RowLifeSpec): Row::highlight, Row::insert and Row::delete.             *)

RowLifeInit ==
    /\ \E s \in ShortLines : rows = <<Row_from(s)>>
    /\ file_type \in Profiles
    /\ file_name = None
    /\ dirty = FALSE
    /\ disk = None
    /\ saved = <<>>
    /\ panicked = FALSE
    /\ last = [Blank EXCEPT !.op = "new"] @@ [prev |-> Blank]
    /\ nops = 0

RowLifeNext ==
    \/ RowNext
    \/ RowEditNext

RowLifeSpec == RowLifeInit /\ [][RowLifeNext]_vars

----------------------------------------------------------------------------
(* Row::highlight pass by pass (ScanSpec): the call on a stale row is      *)
(* started, the while loop makes its passes, highlight_match makes its     *)
(* passes, and the call returns.  last.at.x holds the cursor of the loop   *)
(* that is running, last.in_ml_comment the flag of the same name and       *)
(* last.ok whether a rule matched in the pass.                             *)

\* a step of the call that is running, with its arguments carried along
ScanCall(op, index) ==
    [Call(op) EXCEPT !.word = last.word,
                     !.start_with_comment = last.start_with_comment,
                     !.in_ml_comment = last.in_ml_comment,
                     !.at = Position_new(index, 0)]

\* the while loop is running and the cursor is on a char / past the last one
Scanning == ~panicked /\ last.op \in {"scan_start", "scan_pass"}
Matching == ~panicked /\ last.op \in {"match_start", "match_pass"}

ScanStart(word, start_with_comment) ==
    /\ last.op = "new"
    /\ rows' = <<[rows[1] EXCEPT !.highlighting =
                     IF start_with_comment
                     THEN Rep(TMultilineComment, closing_index_of(rows[1]))
                     ELSE <<>>]>>
    /\ last' = [Call("scan_start") EXCEPT
                   !.word = word, !.start_with_comment = start_with_comment,
                   !.in_ml_comment = start_with_comment,
                   !.at = Position_new(IF start_with_comment
                                       THEN closing_index_of(rows[1]) ELSE 0, 0)]
    /\ nops' = nops + 1
    /\ UNCHANGED <<file_name, dirty, file_type, disk, saved, panicked>>

\* the state a pass of the while loop leaves, p being what it yielded
ScanPassed(p) ==
    /\ rows' = <<[rows[1] EXCEPT !.highlighting = p.highlighting]>>
    /\ panicked' = p.panic
    /\ last' = [ScanCall("scan_pass", p.index) EXCEPT
                   !.ok = p.ok,
                   !.in_ml_comment = IF p.panic THEN last.in_ml_comment
                                     ELSE p.in_ml_comment]

ScanPass ==
    /\ Scanning
    /\ IsSome(Get(rows[1].string, last.at.x))
    /\ ScanPassed(scan_pass(rows[1], last.at.x, file_type.hl_opts,
                            Unwrap(Get(rows[1].string, last.at.x)), rows[1].string))
    /\ nops' = nops + 1
    /\ UNCHANGED <<file_name, dirty, file_type, disk, saved>>

MatchStart ==
    /\ Scanning
    /\ ~IsSome(Get(rows[1].string, last.at.x))
    /\ last' = ScanCall("match_start", 0)
    /\ nops' = nops + 1
    /\ UNCHANGED <<rows, file_name, dirty, file_type, disk, saved, panicked>>

\* highlight_match has a pass to make
MatchGoesOn(p) == IsSome(last.word) /\ Unwrap(last.word) # <<>> /\ p.found

\* the state a pass of the loop of highlight_match leaves, p being what it
\* yielded
MatchPassed(p) ==
    /\ MatchGoesOn(p)
    /\ rows' = <<[rows[1] EXCEPT !.highlighting = p.highlighting]>>
    /\ panicked' = p.panic
    /\ last' = ScanCall("match_pass", p.index)

MatchPass ==
    /\ Matching
    /\ IsSome(last.word)
    /\ MatchPassed(match_pass(rows[1], Unwrap(last.word), last.at.x))
    /\ nops' = nops + 1
    /\ UNCHANGED <<file_name, dirty, file_type, disk, saved>>

\* the state the end of Row::highlight leaves, r being what it yielded
ScanReturned(r) ==
    /\ rows' = <<r.row>>
    /\ panicked' = r.panic
    /\ last' = [ScanCall("scan_return", last.at.x) EXCEPT !.ret = r.ret]

ScanReturn ==
    /\ Matching
    /\ IsSome(last.word) => ~MatchGoesOn(match_pass(rows[1], Unwrap(last.word), last.at.x))
    /\ ScanReturned(highlight_return(rows[1], last.in_ml_comment))
    /\ nops' = nops + 1
    /\ UNCHANGED <<file_name, dirty, file_type, disk, saved>>

ScanNext ==
    \/ \E word \in RowWords, start_with_comment \in BOOLEAN :
          ScanStart(word, start_with_comment)
    \/ ScanPass
    \/ MatchStart
    \/ MatchPass
    \/ ScanReturn

ScanSpec == RowInit /\ [][ScanNext]_vars

\* the call has neither returned nor aborted
ScanRunning == ~panicked /\ last.op # "scan_return"

\* the call runs on: while it has neither returned nor aborted its next step
\* is taken (every step of ScanNext counts one up in nops)
ScanLiveSpec == ScanSpec /\ WF_nops(ScanRunning /\ nops' = nops + 1)

----------------------------------------------------------------------------
(* A Document that is opened from a file and then edited with              *)
(* Document::insert and Document::delete alone, the characters typed being *)
(* a newline and a combining mark (MergeSpec).                             *)

MaxEdits == 3

MergeFiles ==
    { [name |-> TxtName, text |-> Text(<< <<"a">> >>)],
      [name |-> TxtName, text |-> Text(<< <<"a", EACUTE>>, <<"b">> >>)] }

MergeChars == {"\n", COMBINING}

MergeInit ==
    /\ \E f \in MergeFiles :
          /\ rows = Document_open(f.name, f.text).rows
          /\ file_name = Document_open(f.name, f.text).file_name
          /\ dirty = Document_open(f.name, f.text).dirty
          /\ file_type = Document_open(f.name, f.text).file_type
          /\ disk = Some(as_bytes(f.text))
          /\ saved = lines(f.text)
    /\ panicked = FALSE
    /\ last = [Blank EXCEPT !.op = "new"] @@ [prev |-> Blank]
    /\ nops = 0

MergeInsert(at, c) ==
    /\ nops < MaxEdits
    /\ SetDoc(Document_insert(Doc, at, c))
    /\ last' = [Call("insert") EXCEPT !.at = at, !.c = c]
    /\ nops' = nops + 1
    /\ UNCHANGED <<disk, saved, panicked>>

MergeDelete(at) ==
    /\ nops < MaxEdits
    /\ SetDoc(Document_delete(Doc, at))
    /\ last' = [Call("delete") EXCEPT !.at = at]
    /\ nops' = nops + 1
    /\ UNCHANGED <<disk, saved, panicked>>

MergeNext ==
    \/ \E at \in Positions(Doc), c \in MergeChars : MergeInsert(at, c)
    \/ \E at \in Positions(Doc) : MergeDelete(at)

MergeSpec == MergeInit /\ [][MergeNext]_vars

----------------------------------------------------------------------------
(* One Row on its own that is typed into with Row::insert and split and    *)
(* joined again with Row::split and Row::append, up to MaxEdits calls      *)
(* (RowSplitSpec).                                                         *)

RowSplitNext ==
    \/ \E at \in RowPositions, c \in RowChars : nops < MaxEdits /\ RowInserted(at, c)
    \/ \E at \in RowPositions : nops < MaxEdits /\ RowSplitted(at)
    \/ nops < MaxEdits /\ RowAppended

RowSplitSpec == RowOpsInit /\ [][RowSplitNext]_vars
----------------------------------------------------------------------------
(* Properties *)

Tags(d) == [i \in 1..Len(d.rows) |-> d.rows[i].highlighting]

\* the number of rows a Document::highlight call with this until covers
Covered(d, until) ==
    IF IsSome(until) /\ Unwrap(until) + 1 < Len(d.rows) THEN Unwrap(until) + 1
    ELSE Len(d.rows)

\* the last call was Document::highlight and it was the second of two such
\* calls in a row with the same arguments
TwiceHighlighted ==
    /\ last.op = "highlight"
    /\ last.prev.op = "highlight"
    /\ last.word = last.prev.word
    /\ last.until = last.prev.until
    /\ ~panicked

\* C1 (first half): classification is idempotent: when Document::highlight is
\* called twice in a row with the same search word, every row has the same
\* tags after the second call as after the first.
C1_SameTagsAfterSecondCall ==
    TwiceHighlighted => Tags(Doc) = Tags(last.pre)

\* C1 (second half): the second of two such calls scans no row.
C1_SecondCallScansNothing ==
    TwiceHighlighted => last.scanned = {}

\* a line of one-byte chars with no quote and no "//" in it: a "/*" in it that
\* is not inside a comment opens one
PlainLine(s) ==
    /\ \A i \in 1..Len(s) : len_utf8(s[i]) = 1 /\ s[i] \notin {"\"", "'"}
    /\ ~\E k \in 0..Len(s) : Occurs(s, <<"/", "/">>, k)

\* the char index of the first occurrence of pat at or after index from
\* (Len(s) + 1 if there is none)
FirstAt(s, pat, from) ==
    LET hits == {k \in from..Len(s) : Occurs(s, pat, k)}
    IN  IF hits = {} THEN Len(s) + 1 ELSE CHOOSE k \in hits : \A j \in hits : k <= j

\* whether a plain line, read from index from where it is inside a comment
\* or not, ends inside a comment that is not closed
RECURSIVE EndsInComment(_, _, _)
EndsInComment(s, from, inside) ==
    IF inside
    THEN LET close == FirstAt(s, <<"*", "/">>, from)
         IN  IF close > Len(s) THEN TRUE ELSE EndsInComment(s, close + 2, FALSE)
    ELSE LET open == FirstAt(s, <<"/", "*">>, from)
         IN  IF open > Len(s) THEN FALSE ELSE EndsInComment(s, open + 2, TRUE)

\* whether row i (from 0) of the lines ls is entered inside a comment
RECURSIVE EnteredInComment(_, _)
EnteredInComment(ls, i) ==
    IF i = 0 THEN FALSE
    ELSE EndsInComment(ls[i], 0, EnteredInComment(ls, i - 1))

\* C2: multi-line comment propagation: after Document::highlight has scanned
\* the rows from row 0, a row that follows a row ending inside an unclosed
\* comment is tagged MultilineComment from its first unit through its first
\* "*/" (all of it if it has none) and no unit after a closing "*/" that is
\* followed by no further "/" is tagged MultilineComment, and a row left
\* inside an unclosed comment is tagged MultilineComment to its end.
C2_CommentPropagates ==
    (/\ last.op = "highlight"
     /\ last.word = None
     /\ ~panicked
     /\ file_type.hl_opts.comments
     /\ last.scanned = 0..(Covered(Doc, last.until) - 1)
     /\ \A i \in 1..Len(rows) : PlainLine(rows[i].string))
    => \A i \in 1..Covered(Doc, last.until) :
          LET s == rows[i].string
              hl == rows[i].highlighting
              entered == EnteredInComment(Contents(Doc), i - 1)
              close == FirstAt(s, <<"*", "/">>, 0)
              through == IF close > Len(s) THEN Len(s) ELSE close + 2
          IN  /\ entered =>
                  /\ Len(hl) >= through
                  /\ \A k \in 1..through : hl[k] = TMultilineComment
                  /\ \A k \in (through + 1)..Len(s) :
                        (\A j \in (through + 1)..Len(s) : s[j] # "/")
                            => k <= Len(hl) /\ hl[k] # TMultilineComment
              /\ EndsInComment(s, 0, entered) =>
                  /\ Len(hl) = Len(s)
                  /\ Len(s) > 0 => hl[Len(s)] = TMultilineComment

\* the last call was Row::highlight on rows[1] and it scanned the line
RowScanned == last.op = "row_highlight" /\ ~last.skipped /\ ~panicked

\* every grapheme of s is one char, so that a unit of s is a char of s
UnitsAreChars(s) == Len(graphemes(s)) = Len(s)

\* the (0-based) indices of the units of the occurrences of w in s that do not
\* overlap, found from left to right from index from on
RECURSIVE MatchUnits(_, _, _)
MatchUnits(s, w, from) ==
    LET k == FirstAt(s, w, from)
    IN  IF k > Len(s) THEN {}
        ELSE (k..(k + Len(w) - 1)) \cup MatchUnits(s, w, k + Len(w))

\* C3: search-match tagging: after Row::highlight with a non-empty search
\* word, the units tagged Match are exactly the units of the non-overlapping
\* occurrences of the word in the line, found from left to right.
C3_EveryOccurrenceIsMatch ==
    (/\ RowScanned
     /\ IsSome(last.word)
     /\ last.word # Some(<<>>)
     /\ UnitsAreChars(rows[1].string))
    => LET s == rows[1].string
           hl == rows[1].highlighting
       IN  \A i \in 0..(Len(s) - 1) :
              (i < Len(hl) /\ hl[i + 1] = TMatch)
                  <=> i \in MatchUnits(s, Unwrap(last.word), 0)

\* the keyword kw at index i of s has the tag type on its own units and on
\* neither neighbour
KeywordTagged(s, hl, kw, i, type) ==
    /\ \A j \in i..(i + Len(kw) - 1) : j < Len(hl) /\ hl[j + 1] = type
    /\ i > 0 => hl[i] # type
    /\ i + Len(kw) < Len(s) => ~(i + Len(kw) < Len(hl) /\ hl[i + Len(kw) + 1] = type)

\* the chars next to the keyword kw at index i of s, if any, are separators
KeywordBounded(s, kw, i) ==
    /\ i > 0 => is_separator(s[i])
    /\ i + Len(kw) < Len(s) => is_separator(s[i + Len(kw) + 1])

KeywordsAgree(s, hl, keywords, type) ==
    \A n \in 1..Len(keywords) : \A i \in 0..Len(s) :
        Occurs(s, keywords[n], i)
            => (KeywordTagged(s, hl, keywords[n], i, type)
                    <=> KeywordBounded(s, keywords[n], i))

LetLine == <<"l", "e", "t", " ", "x", " ", "=", " ", "1", ";">>
LetterLine == <<"l", "e", "t", "t", "e", "r", " ", "=", " ", "1", ";">>

KeywordRule ==
    LET s == rows[1].string
        hl == rows[1].highlighting
        opts == file_type.hl_opts
    IN  /\ KeywordsAgree(s, hl, opts.primary_keywords, TPrimaryKeyword)
        /\ KeywordsAgree(s, hl, opts.secondary_keywords, TSecondaryKeyword)
        /\ (s = LetterLine /\ file_type.name = "Rust")
              => \A k \in 1..Len(hl) : hl[k] # TPrimaryKeyword
        /\ (s = LetLine /\ file_type.name = "Rust")
              => {k \in 1..Len(hl) : hl[k] = TPrimaryKeyword} = {1, 2, 3}

\* C9 as claimed: keyword boundary: after a scan of a line with no search
\* word, a configured keyword occurring at index i is tagged as a keyword
\* over exactly its own units if and only if the chars next to it, where they
\* exist, are separators.
C9_KeywordIffBounded ==
    (RowScanned /\ last.word = None) => KeywordRule

\* C9 as amended: the same, for a line that is scanned from outside a comment
\* and holds none of the chars that open a comment, a string or a character
\* literal.
C9_KeywordIffBoundedOutsideLiterals ==
    (/\ RowScanned
     /\ last.word = None
     /\ ~last.start_with_comment
     /\ \A k \in 1..Len(rows[1].string) : rows[1].string[k] \notin {"/", "\"", "'"})
    => KeywordRule

\* a keyword that has a separator on either side, and one that has not, are
\* met by a scan that C9 speaks of
C9_Witness ==
    /\ RowScanned
    /\ last.word = None
    /\ ~last.start_with_comment
    /\ rows[1].string = <<"a", "i", "f", " ", "i", "f", "a", " ", "i", "f">>
    /\ rows[1].highlighting =
          <<TNone, TNone, TNone, TNone, TNone, TNone, TNone, TNone,
            TPrimaryKeyword, TPrimaryKeyword>>

\* a Number span starts at index i of the tags hl
NumberStarts(hl, i) == hl[i + 1] = TNumber /\ (i = 0 \/ hl[i] # TNumber)

\* the index after the run of digits and "." of s that starts at index i
RECURSIVE RunEnd(_, _)
RunEnd(s, i) ==
    IF i < Len(s) /\ (is_ascii_digit(s[i + 1]) \/ s[i + 1] = ".")
    THEN RunEnd(s, i + 1) ELSE i

\* C10: number boundary: after a scan with numbers enabled and no search
\* word, a Number span starts only at a decimal digit that is the first char
\* or follows a separator, and it covers the whole run of digits and "."
\* that starts there and nothing more; the 5 of "a5" is not tagged Number and
\* the 5 of " 5" is.
C10_NumberAfterSeparator ==
    (RowScanned /\ last.word = None /\ file_type.hl_opts.numbers)
    => LET s == rows[1].string
           hl == rows[1].highlighting
       IN  /\ \A i \in 0..(Len(s) - 1) :
                  (i < Len(hl) /\ NumberStarts(hl, i))
                  => /\ is_ascii_digit(s[i + 1])
                     /\ i = 0 \/ is_separator(s[i])
                     /\ \A j \in i..(RunEnd(s, i) - 1) : hl[j + 1] = TNumber
                     /\ RunEnd(s, i) < Len(s) => hl[RunEnd(s, i) + 1] # TNumber
           /\ (s = <<"a", "5">> /\ ~last.start_with_comment) => hl = <<TNone, TNone>>
           /\ (s = <<" ", "5">> /\ ~last.start_with_comment) => hl = <<TNone, TNumber>>

\* a scan has tagged a run of digits and "." after a separator, and has left
\* a digit after a letter untagged
C10_Witness ==
    /\ RowScanned
    /\ last.word = None
    /\ rows[1].string = <<"i", "8", " ", "5", ".", "5", "a", "5", " ", "5">>
    /\ rows[1].highlighting =
          <<TSecondaryKeyword, TSecondaryKeyword, TNone, TNumber, TNumber, TNumber,
            TNone, TNone, TNone, TNumber>>

\* the last two calls were Row::insert and then Row::delete at the same index
InsertedThenDeleted ==
    /\ last.op = "row_delete"
    /\ last.prev.op = "row_insert"
    /\ last.at = last.prev.at

\* the row is as it was before the insert: its content and its cached length
RowRestored ==
    /\ rows[1].string = last.prev.pre.rows[1].string
    /\ rows[1].len = last.prev.pre.rows[1].len

\* c is a grapheme on its own wherever it stands
StandsAlone(c) == ~IsExtend(c) /\ ~IsControl(c)

\* C4 as claimed: insert/delete inverse: for every line, unit u and index p,
\* Row::insert(p, u) followed by Row::delete(p) restores the content and the
\* cached length of the line.
C4_InsertDeleteInverse == InsertedThenDeleted => RowRestored

\* C4 as amended: insert/delete inverse for an index p that is at most the
\* length of the line, a unit u and a line whose chars are each a grapheme on
\* their own: Row::insert(p, u) followed by Row::delete(p) restores the
\* content and the cached length of the line.
C4_InsertDeleteInverseInRange ==
    (/\ InsertedThenDeleted
     /\ last.at.x <= Row_len(last.prev.pre.rows[1])
     /\ StandsAlone(last.prev.c)
     /\ \A k \in 1..Len(last.prev.pre.rows[1].string) :
            StandsAlone(last.prev.pre.rows[1].string[k]))
    => RowRestored

\* a unit was appended at the index that is the length of a line that is not
\* empty, and the delete at that index took it away again
C4_Witness ==
    /\ InsertedThenDeleted
    /\ last.at.x = Row_len(last.prev.pre.rows[1])
    /\ last.at.x > 0
    /\ StandsAlone(last.prev.c)
    /\ last.pre.rows[1].len = last.at.x + 1
    /\ RowRestored

\* the insert that the last call was has been accepted
InsertAccepted == last.op = "insert" /\ last.at.y <= Len(last.pre.rows)

\* the delete that the last call was has been accepted
DeleteAccepted == last.op = "delete" /\ last.at.y < Len(last.pre.rows)

\* C5 as claimed: dirty flag accuracy: in every reachable state the dirty
\* flag is true if and only if the line contents differ from what they were
\* at the last successful save (at load if there was none).
C5_DirtyIffChanged == dirty <=> (Contents(Doc) # saved)

\* C5 as amended: the dirty flag is false only when the line contents are
\* what they were at the last successful save (at load if there was none);
\* every accepted insert and delete sets it, whether or not the contents
\* change; a dropped edit and a highlight leave it alone.
C5_CleanOnlyIfUnchanged ==
    /\ ~dirty => Contents(Doc) = saved
    /\ (InsertAccepted \/ DeleteAccepted) => dirty
    /\ (last.op \in {"insert", "delete", "highlight"}
            /\ ~InsertAccepted /\ ~DeleteAccepted) => dirty = last.pre.dirty

\* an accepted delete that took nothing away has made a clean document dirty
C5_Witness ==
    /\ DeleteAccepted
    /\ ~last.pre.dirty
    /\ dirty
    /\ Contents(Doc) = saved

\* C6: invalid edits are dropped: Document::insert with position.y greater
\* than the line count and Document::delete with position.y greater than or
\* equal to it leave the lines, their contents, the dirty flag and every
\* freshness flag as they were; no Document::insert adds more than one line.
C6_InvalidEditDropped ==
    /\ (last.op = "insert" /\ last.at.y > Len(last.pre.rows)) => Doc = last.pre
    /\ (last.op = "delete" /\ last.at.y >= Len(last.pre.rows)) => Doc = last.pre
    /\ last.op = "insert" => Len(rows) <= Len(last.pre.rows) + 1

\* an insert past the end was dropped on a clean document that holds a fresh
\* row
C6_Witness ==
    /\ last.op = "insert"
    /\ last.at.y > Len(last.pre.rows)
    /\ ~last.pre.dirty
    /\ \E i \in 1..Len(last.pre.rows) : last.pre.rows[i].is_highlighted

\* C7 as claimed: save clears dirty: whenever Document::save returns Ok the
\* dirty flag is false afterwards, with or without a backing file name.
C7_SaveOkClearsDirty == (last.op = "save" /\ last.ok) => ~dirty

\* C7 as amended: when Document::save returns Ok on a document that has a
\* backing file name, the dirty flag is false afterwards; on a document with
\* no file name save returns Ok and leaves the document, dirty flag included,
\* as it was.
C7_SaveOkClearsDirtyOfNamed ==
    /\ (last.op = "save" /\ last.ok /\ IsSome(last.pre.file_name)) => ~dirty
    /\ (last.op = "save" /\ ~IsSome(last.pre.file_name))
           => last.ok /\ Doc = last.pre

\* a dirty document with a file name was saved
C7_Witness ==
    /\ last.op = "save"
    /\ last.ok
    /\ IsSome(last.pre.file_name)
    /\ last.pre.dirty
    /\ ~dirty

\* C8: operations never fail: Document::insert, Document::delete and
\* Document::highlight run to completion on every buffer content, position
\* and search word.
C8_NeverPanics == ~panicked

\* the char index at which the unit with index x of s starts (the number of
\* chars of s if s has no such unit)
UnitStart(s, x) ==
    IF x >= Len(graphemes(s)) THEN Len(s)
    ELSE Len(Concat(SubSeq(graphemes(s), 1, x)))

\* the query q occurs in the line s at the unit with index x
QueryAt(s, q, x) == x < Len(graphemes(s)) /\ Occurs(s, q, UnitStart(s, x))

\* the positions of the document d at which the query q occurs
Occurrences(d, q) ==
    UNION {{Position_new(x, y - 1) : x \in {x \in 0..Len(d.rows[y].string) :
                                              QueryAt(d.rows[y].string, q, x)}} :
               y \in 1..Len(d.rows)}

\* line-then-column order of positions
Precedes(p, r) == p.y < r.y \/ (p.y = r.y /\ p.x <= r.x)

\* the occurrences of q in d at or after the position from
ForwardHits(d, q, from) == {p \in Occurrences(d, q) : Precedes(from, p)}

\* the occurrences of q in d that lie entirely before the position from
BackwardHits(d, q, from) ==
    {p \in Occurrences(d, q) :
        \/ p.y < from.y
        \/ /\ p.y = from.y
           /\ UnitStart(d.rows[p.y + 1].string, p.x) + Len(q)
                  <= UnitStart(d.rows[p.y + 1].string, from.x)}

\* what a search from the position from is to return
FirstMatch(d, q, from, direction) ==
    LET hits == IF direction = Forward THEN ForwardHits(d, q, from)
                ELSE BackwardHits(d, q, from)
    IN  IF hits = {} THEN None
        ELSE IF direction = Forward
        THEN Some(CHOOSE p \in hits : \A r \in hits : Precedes(p, r))
        ELSE Some(CHOOSE p \in hits : \A r \in hits : Precedes(r, p))

\* c is a grapheme on its own wherever it stands, and so is every char of s
AllStandAlone(s) == \A k \in 1..Len(s) : StandsAlone(s[k])

\* C11 as claimed: buffer search returns the first match: Document::find
\* returns the least position at or after from at which the query occurs
\* (Forward), or the greatest position at which an occurrence lies entirely
\* before from (Backward), and None exactly when there is no such position.
C11_FindReturnsFirstMatch ==
    (last.op = "find" /\ last.query # <<>>)
    => /\ ~panicked
       /\ last.found = FirstMatch(Doc, last.query, last.at, last.direction)

\* C11 as amended: the same for a non-empty query in a buffer whose chars are
\* each a grapheme on their own, where a Backward search starts at a position
\* inside the buffer (from.y below the line count and from.x at most the
\* length of row from.y); an empty query yields None.
C11_FindReturnsFirstMatchInRange ==
    /\ (/\ last.op = "find"
        /\ last.query # <<>>
        /\ \A y \in 1..Len(rows) : AllStandAlone(rows[y].string)
        /\ last.direction = Backward
              => /\ last.at.y < Len(rows)
                 /\ last.at.x <= Row_len(rows[last.at.y + 1]))
       => /\ ~panicked
          /\ last.found = FirstMatch(Doc, last.query, last.at, last.direction)
    /\ (last.op = "find" /\ last.query = <<>>) => last.found = None

\* a Backward search has found the query in a row before the one it started in
C11_Witness ==
    /\ last.op = "find"
    /\ last.direction = Backward
    /\ last.at.y < Len(rows)
    /\ last.at.x <= Row_len(rows[last.at.y + 1])
    /\ IsSome(last.found)
    /\ Unwrap(last.found).y < last.at.y
    /\ Unwrap(last.found).x > 0

\* the char indices of the line s at which the query q occurs
OccurrencesIn(s, q) == {k \in 0..Len(s) : Occurs(s, q, k)}

\* the last two calls searched the row for the same non-empty query, of which
\* it holds exactly one occurrence: Forward from 0, then Backward from its length
SearchedBothWays ==
    /\ last.op = "row_find" /\ last.prev.op = "row_find"
    /\ last.query = last.prev.query /\ last.query # <<>>
    /\ last.prev.direction = Forward /\ last.prev.at.x = 0
    /\ last.direction = Backward /\ last.at.x = Row_len(rows[1])
    /\ Cardinality(OccurrencesIn(rows[1].string, last.query)) = 1

\* both searches returned the unit index at which the one occurrence starts
BothFoundIt ==
    \E x \in 0..Row_len(rows[1]) :
        /\ OccurrencesIn(rows[1].string, last.query) = {UnitStart(rows[1].string, x)}
        /\ x < Len(graphemes(rows[1].string))
        /\ last.index = Some(x)
        /\ last.prev.index = Some(x)

\* C12 as claimed: search symmetry: on a line that contains exactly one
\* occurrence of a non-empty query, Row::find(query, 0, Forward) and
\* Row::find(query, len, Backward) return the same position, the index where
\* that occurrence starts.
C12_SearchSymmetry == SearchedBothWays => BothFoundIt

\* C12 as amended: the same for a line and a query whose chars are each a
\* grapheme on their own.
C12_SearchSymmetryOfPlainUnits ==
    (SearchedBothWays /\ AllStandAlone(rows[1].string) /\ AllStandAlone(last.query))
    => BothFoundIt

\* both searches found the one occurrence of a two-char query past index 0
C12_Witness ==
    /\ SearchedBothWays
    /\ AllStandAlone(rows[1].string)
    /\ Len(last.query) = 2
    /\ last.index = Some(1)
    /\ last.prev.index = Some(1)

\* the last two calls split the row and appended what split returned
SplitThenAppended == last.op = "row_append" /\ last.prev.op = "row_split"

\* C13 as claimed: split/append round trip: for every line and every split
\* point k with 0 <= k <= length, Row::split(k) followed by Row::append of the
\* returned suffix onto the prefix yields a line whose content and cached
\* length are those of the line before the split, and the lengths of prefix
\* and suffix sum to that length.
C13_SplitAppendRoundTrip ==
    (SplitThenAppended /\ last.prev.at.x <= last.prev.pre.rows[1].len)
    => /\ rows[1].string = last.prev.pre.rows[1].string
       /\ rows[1].len = last.prev.pre.rows[1].len
       /\ last.pre.rows[1].len + last.pre.rows[2].len = last.prev.pre.rows[1].len

\* every char of the row is a unit of its own
SingleWidth(row) == AllStandAlone(row.string)

\* the row the last call was made on, as it was before the call
RowBefore == last.pre.rows[1]

\* C14: length invariant: on lines of single-width units the cached length of
\* each line is the number of units of its content after any sequence of
\* Row::insert, Row::delete, Row::split and Row::append; an insert raises the
\* length by exactly 1, a delete at an index below the length lowers it by
\* exactly 1, and a delete at an index at or above the length changes nothing.
C14_LengthInvariant ==
    /\ \A y \in 1..Len(rows) :
          SingleWidth(rows[y])
          => /\ rows[y].len = Len(rows[y].string)
             /\ rows[y].len = Len(graphemes(rows[y].string))
    /\ (last.op = "row_insert" /\ SingleWidth(RowBefore) /\ StandsAlone(last.c))
       => rows[1].len = RowBefore.len + 1
    /\ (last.op = "row_delete" /\ SingleWidth(RowBefore) /\ last.at.x < RowBefore.len)
       => rows[1].len = RowBefore.len - 1
    /\ (last.op = "row_delete" /\ SingleWidth(RowBefore) /\ last.at.x >= RowBefore.len)
       => rows[1] = RowBefore

\* a unit was inserted inside a line of single-width units and the unit
\* before it was then deleted
C14_Witness ==
    /\ last.op = "row_delete" /\ last.prev.op = "row_insert"
    /\ SingleWidth(last.prev.pre.rows[1]) /\ StandsAlone(last.prev.c)
    /\ last.prev.at.x = 1 /\ last.at.x = 0
    /\ last.prev.pre.rows[1].len = 2
    /\ RowBefore.len = 3
    /\ rows[1].len = 2

\* the last two chars of the line s are "*/"
EndsWithClose(s) == Len(s) >= 2 /\ s[Len(s) - 1] = "*" /\ s[Len(s)] = "/"

\* C15: skip-path report: Row::highlight called with no search word on a line
\* whose classification is fresh leaves the tags untouched and returns true
\* only if the last tag of the line is MultilineComment and its last two
\* chars are not "*/"; on a fresh line that ends with "*/" it returns false.
C15_SkipPathReport ==
    (last.op = "row_highlight" /\ last.skipped /\ ~panicked)
    => LET s == rows[1].string
           hl == rows[1].highlighting
       IN  /\ hl = last.pre.rows[1].highlighting
           /\ last.ret => /\ Len(hl) > 0
                          /\ hl[Len(hl)] = TMultilineComment
                          /\ ~EndsWithClose(s)
           /\ EndsWithClose(s) => ~last.ret

\* the document d with every row stale
AllStale(d) ==
    [d EXCEPT !.rows = [i \in 1..Len(d.rows) |->
                            [d.rows[i] EXCEPT !.is_highlighted = FALSE]]]

\* what scanning the buffer from row 0 with all rows stale yields
FullRescan == Document_highlight(AllStale(Doc), None, last.until)

\* C16: incremental classification agrees with a full rescan: after a sequence
\* of Document::insert, Document::delete and Document::highlight(None, until)
\* calls (here: of at most two calls, the last one a highlight) every row
\* covered by the latest highlight call has the tags that scanning the buffer
\* as it is from row 0 with all rows stale gives it.
C16_IncrementalIsFullRescan ==
    (/\ last.op = "highlight" /\ last.word = None
     /\ nops <= 2
     /\ last.prev.op \in {"new", "insert", "delete", "highlight"}
     /\ last.prev.word = None
     /\ ~panicked)
    => /\ ~FullRescan.panic
       /\ \A i \in 1..Covered(Doc, last.until) :
             rows[i].highlighting = FullRescan.doc.rows[i].highlighting

\* C17: scan return value: a Row::highlight call that scans the line returns
\* true if and only if the line ends inside a multi-line comment that has no
\* closing "*/" after its opening "/*" (or after the line start when the scan
\* was started inside a comment), also for a line such as "/*/".
C17_ScanReturnsOpenComment ==
    (/\ RowScanned
     /\ file_type.hl_opts.comments
     /\ file_type.hl_opts.multiline_comments
     /\ PlainLine(rows[1].string))
    => (last.ret <=> EndsInComment(rows[1].string, 0, last.start_with_comment))

\* the (1-based) indices of the tags of hl that are Match
MatchesOf(hl) == {k \in 1..Len(hl) : hl[k] = TMatch}

\* what scanning the buffer from row 0 with all rows stale and the search
\* word of the last call yields
RescanWithWord == Document_highlight(AllStale(Doc), last.word, last.until)

\* C18: the search pass is recomputed on every call: after two
\* Document::highlight calls with no edit in between the Match tags of every
\* covered row are those of the word of the latest call, and none after a
\* call with no search word.
C18_MatchTagsOfLatestWord ==
    (last.op = "highlight" /\ last.prev.op = "highlight" /\ ~panicked)
    => \A i \in 1..Covered(Doc, last.until) :
          /\ MatchesOf(rows[i].highlighting)
                 = MatchesOf(RescanWithWord.doc.rows[i].highlighting)
          /\ last.word = None => MatchesOf(rows[i].highlighting) = {}

\* C19: one tag per unit: after a Row::highlight call that scans the line,
\* with any profile and any carried-in flag, the line has as many tags as it
\* has chars, also where it ends inside a string literal that is not closed.
C19_OneTagPerUnit ==
    RowScanned => Len(rows[1].highlighting) = Len(rows[1].string)

\* the index of the first row an edit at row y makes stale
FirstStale(y) == IF y >= 1 THEN y - 1 ELSE 0

\* C20: edit invalidation: after every accepted Document::insert or
\* Document::delete at (x, y) the dirty flag is true and every row with index
\* >= max(y - 1, 0) is stale, and the Document::highlight call that follows
\* scans each of those rows that it covers.
C20_EditInvalidates ==
    /\ (InsertAccepted \/ DeleteAccepted)
       => /\ dirty
          /\ \A i \in 1..Len(rows) :
                i - 1 >= FirstStale(last.at.y) => ~rows[i].is_highlighted
    /\ (/\ last.op = "highlight" /\ ~panicked
        /\ \/ last.prev.op = "insert" /\ last.prev.at.y <= Len(last.prev.pre.rows)
           \/ last.prev.op = "delete" /\ last.prev.at.y < Len(last.prev.pre.rows))
       => \A i \in 1..Covered(Doc, last.until) :
             i - 1 >= FirstStale(last.prev.at.y) => (i - 1) \in last.scanned

\* an insert at row 2 of a document whose rows 0 and 1 were fresh has left
\* row 0 fresh and made row 1 stale
C20_Witness ==
    /\ InsertAccepted
    /\ last.at.y = 2
    /\ last.pre.rows[1].is_highlighted /\ last.pre.rows[2].is_highlighted
    /\ rows[1].is_highlighted
    /\ ~rows[2].is_highlighted
    /\ dirty

\* C21: line edits invalidate the line: after Row::insert(at, u) for any at,
\* and after Row::delete(at) for an at below the length, the freshness flag
\* of the line is false, whatever it was before.
C21_RowEditInvalidates ==
    /\ last.op = "row_insert" => ~rows[1].is_highlighted
    /\ (last.op = "row_delete" /\ last.at.x < RowBefore.len) => ~rows[1].is_highlighted

ScanEnded == ~ScanRunning

\* each pass of the two loops has moved its cursor forward
ScanProgress ==
    /\ (last.op = "scan_pass" /\ ~panicked)
       => /\ last.at.x >= last.prev.at.x + 1
          /\ ~last.ok => last.at.x = last.prev.at.x + 1
    /\ (last.op = "match_pass" /\ ~panicked) => last.at.x > last.prev.at.x

\* C23: scan progress and termination: in Row::highlight a pass in which a
\* rule matches moves the cursor forward by at least one unit and a pass in
\* which none matches by exactly one, every pass of highlight_match moves the
\* search start strictly forward, and the call comes to its end.
C23_ScanTerminates == []ScanProgress /\ <>ScanEnded

\* the call has returned after a pass of highlight_match that found the word
\* and a pass of the while loop in which a rule took several units
C23_Witness ==
    /\ last.op = "scan_return"
    /\ last.prev.op = "match_pass"
    /\ last.prev.at.x >= 2
    /\ \E k \in 1..Len(rows[1].highlighting) : rows[1].highlighting[k] = TMatch
    /\ \E k \in 1..Len(rows[1].highlighting) : rows[1].highlighting[k] = TMultilineComment
    /\ rows[1].is_highlighted

\* the row a pass-by-pass call leaves is the row Row::highlight yields
ScanAgrees ==
    last.op = "scan_return"
    => /\ rows[1] = Row_highlight(Row_from(rows[1].string), file_type.hl_opts,
                                  last.word, last.start_with_comment).row
       /\ last.ret = Row_highlight(Row_from(rows[1].string), file_type.hl_opts,
                                   last.word, last.start_with_comment).ret

\* the sequence 0, 1, ..., n - 1
UpTo(n) == [k \in 1..n |-> k - 1]

\* C24: bounded classification leaves the rest alone: Document::highlight
\* calls Row::highlight on the rows with index below min(until + 1, line
\* count), on every row if until is unset, in increasing order from row 0,
\* and leaves the rows from that index on, the content and the cached length
\* of every row, the line count and the dirty flag as they were.
C24_BoundedHighlightFrame ==
    (last.op = "highlight" /\ ~panicked)
    => /\ last.visited = UpTo(Covered(last.pre, last.until))
       /\ ~IsSome(last.until) => last.visited = UpTo(Len(last.pre.rows))
       /\ Len(rows) = Len(last.pre.rows)
       /\ \A i \in 1..Len(rows) :
             /\ rows[i].string = last.pre.rows[i].string
             /\ rows[i].len = last.pre.rows[i].len
             /\ i > Covered(last.pre, last.until) => rows[i] = last.pre.rows[i]
       /\ dirty = last.pre.dirty
       /\ file_name = last.pre.file_name
       /\ file_type = last.pre.file_type

\* a call with until = Some(0) on a document of two rows with a search word
\* has tagged row 0 and has left row 1 with the tags and the freshness flag
\* an earlier call gave it
C24_Witness ==
    /\ last.op = "highlight" /\ ~panicked
    /\ last.until = Some(0)
    /\ IsSome(last.word)
    /\ last.visited = <<0>>
    /\ Len(rows) = 2
    /\ rows[1].highlighting # last.pre.rows[1].highlighting
    /\ rows[2].is_highlighted
    /\ rows[2].highlighting # <<>>
    /\ rows[2] = last.pre.rows[2]

\* the content of the units [from, to) of a row
UnitsOf(row, from, to) ==
    LET g == graphemes(row.string)
        hi == IF to < Len(g) THEN to ELSE Len(g)
    IN  IF from >= hi THEN <<>> ELSE Concat(SubSeq(g, from + 1, hi))

\* the cached lengths of the rows of a document
Lengths(d) == [i \in 1..Len(d.rows) |-> d.rows[i].len]

\* a newline was inserted into document d at `at`, a column of one of its
\* rows that is not past the row's length
NewlineInto(call, d) ==
    /\ call.op = "insert" /\ call.c = "\n"
    /\ call.at.y < Len(d.rows)
    /\ call.at.x <= Row_len(d.rows[call.at.y + 1])

\* document e is document d with the row at.y split at column at.x
SplitAt(d, e, at) ==
    /\ Len(e.rows) = Len(d.rows) + 1
    /\ e.rows[at.y + 1].string = UnitsOf(d.rows[at.y + 1], 0, at.x)
    /\ e.rows[at.y + 2].string
           = UnitsOf(d.rows[at.y + 1], at.x, Row_len(d.rows[at.y + 1]))

\* C25 as claimed: newline split and merge are inverse: for every document,
\* every row index y below the line count and every column x <= the length
\* of row y, Document::insert((x, y), '\n') raises the line count by exactly
\* one with row y holding units [0, x) and row y + 1 holding units
\* [x, length), and a following Document::delete((x, y)) merges them back so
\* that the sequence of line contents and cached lengths equals the
\* original.
C25_SplitMergeInverse ==
    /\ NewlineInto(last, last.pre) => SplitAt(last.pre, Doc, last.at)
    /\ (/\ last.op = "delete"
        /\ NewlineInto(last.prev, last.prev.pre)
        /\ last.at = last.prev.at)
       => /\ Contents(Doc) = Contents(last.prev.pre)
          /\ Lengths(Doc) = Lengths(last.prev.pre)

====
